---------------------------- MODULE Spec2Model ----------------------------
(***************************************************************************)
(* A model of find_ranking of milp_ranker.py (the Basic variant) and of    *)
(* milp_ranker_equal.py (the Tolerant variant).                            *)
(*                                                                         *)
(* Probabilities are fixed-point numbers in tenths: Half is 0.5, One is    *)
(* 1.0.  Every threshold of the two programs (0.5, 0.5 -+ equal_width/2    *)
(* for an even number of tenths, the observed values) is then an integer,  *)
(* and so is every vertex of the linear programs the code builds, so the   *)
(* optimisation is carried out exactly over the integers.  Floating-point  *)
(* rounding is not modelled.                                               *)
(*                                                                         *)
(* The solver (gurobipy) is the external collaborator.  model.optimize()   *)
(* is modelled by what it promises: it returns SOME optimal solution of    *)
(* the constraints the code declared; which one is the solver's choice.    *)
(***************************************************************************)
EXTENDS Integers, Sequences, FiniteSets

VARIABLES
    variant,        \* "basic": milp_ranker.py, "tolerant": milp_ranker_equal.py
    equal_width,    \* argument equal_width, in tenths (Tolerant only)
    max_rank,       \* argument max_rank as passed (Tolerant only)
    given,          \* the comparisons as the caller first wrote them
    comparisons,    \* argument comparisons: dict in insertion order, <<i, j, value>>
    pc,             \* position in find_ranking
    canon,          \* the local comparisons after line 23: canonical key -> value
    nodes,          \* np.unique of the ids of the canonical keys
    model_created,  \* Model('comparison') of phase 1 was constructed
    declared,       \* variables and constraints were added to the phase-1 model
    decision,       \* solved binaries per pair: <<z>> or <<ge, le, eq>>
    E_ij,           \* solved e_ij per pair
    T_ij_pos,       \* solved T_ij_pos per interior pair
    T_ij_neg,       \* solved T_ij_neg per interior pair
    total_cost,     \* model.getObjective().getValue()
    solves,         \* number of optimize() calls run
    R_i,            \* solved phase-2 ranks per node
    result,         \* the returned list of ranks
    failure         \* the exception that ended the call, "none" if none

vars == <<variant, equal_width, max_rank, given, comparisons, pc, canon, nodes,
          model_created, declared, decision, E_ij, T_ij_pos, T_ij_neg,
          total_cost, solves, R_i, result, failure>>

---------------------------------------------------------------------------
(* Numbers *)

Half == 5
One == 2 * Half

\* max_rank=-1 of the signature: "use the node count"
DefaultMaxRank == -1

\* the caller's item ids
Ids == {0, 1, 2, 3}

\* longest comparison dict of the graph inputs
MaxLen == 4
\* longest comparison dict of the inputs with free orientation and values
MaxShort == 2

\* observed values of the graph inputs of the Basic variant: 0, 0.3, 0.5, 1
Grid == {0, 3, Half, One}
\* and of the Tolerant variant: below the band, the tie, above the band
TolerantGrid == {3, Half, One}
Max(S) == CHOOSE x \in S : \A y \in S : y <= x
Min(S) == CHOOSE x \in S : \A y \in S : x <= y

RECURSIVE SumOver(_, _)
SumOver(S, f) ==
    IF S = {} THEN 0
    ELSE LET x == CHOOSE y \in S : TRUE IN f[x] + SumOver(S \ {x}, f)

---------------------------------------------------------------------------
(* Normalizer and node enumerator *)

CanonKey(e) == IF e[1] < e[2] THEN <<e[1], e[2]>> ELSE <<e[2], e[1]>>

CanonValueNoFlip(e) == e[3]
CanonValue(e) == IF e[1] < e[2] THEN e[3] ELSE One - e[3]

\* the dict comprehension: a later entry of the same canonical key overwrites
Canonical(c) ==
    [k \in {CanonKey(c[n]) : n \in DOMAIN c} |->
        CanonValue(c[Max({n \in DOMAIN c : CanonKey(c[n]) = k})])]

NodesOf(cm) == {k[1] : k \in DOMAIN cm} \cup {k[2] : k \in DOMAIN cm}

ValuesInRange(cm) ==
    /\ \A k \in DOMAIN cm : cm[k] <= One
    /\ \A k \in DOMAIN cm : cm[k] >= 0

Interior(cm) == {k \in DOMAIN cm : cm[k] # 0 /\ cm[k] # One}

---------------------------------------------------------------------------
(* Phase 1, the part of one pair: continuous variables and bracket
   constraints.  A value of the continuous variables of a pair is
   <<e, t_pos, t_neg>>; a pair with an observation of 0 or 1 has no T
   variables and carries 0 for both. *)

\* lb and ub of E_ij, T_ij_pos, T_ij_neg, and E_ij = T_ij_pos - T_ij_neg
Continuous(s) ==
    IF s = 0 \/ s = One
    THEN {<<e, 0, 0>> : e \in (0 - s)..(One - s)}
    ELSE {<<tp - tn, tp, tn>> : tp \in 0..(One - s), tn \in 0..s}

\* z_ij_upper_bound and z_ij_lower_bound; z is 0 or 1
BracketBasicLoose(s, z, x) ==
    /\ x[1] + s - Half >= (0 - One) + z * One
    /\ x[1] + s - Half <= One
BracketBasic(s, z, x) ==
    /\ x[1] + s - Half >= (0 - One) + z * One
    /\ x[1] + s - Half <= z * One

lower_bound(w) == Half - (w \div 2)
upper_bound(w) == Half + (w \div 2)

\* ge_ij_lower_bound, ge_ij_upper_bound, le_ij_lower_bound, le_ij_upper_bound
\* and eq_ij; d is <<ge, le, eq>>
BracketTolerantNoBand(w, s, d, x) ==
    /\ x[1] + s - Half <= d[1] * One
    /\ x[1] + s - Half >= (0 - One) + d[1] * One
    /\ x[1] + s - Half >= 0 - d[2] * One
    /\ x[1] + s - Half <= One - d[2] * One
    /\ d[2] + d[3] + d[1] = 1
BracketTolerant(w, s, d, x) ==
    /\ x[1] + s - upper_bound(w) <= d[1] * One
    /\ x[1] + s - upper_bound(w) >= (0 - One) + d[1] * One
    /\ x[1] + s - lower_bound(w) >= 0 - d[2] * One
    /\ x[1] + s - lower_bound(w) <= One - d[2] * One
    /\ d[2] + d[3] + d[1] = 1

ObjectiveTermSameSign(s, x) ==
    IF s = One THEN x[1]
    ELSE IF s = 0 THEN x[1]
    ELSE x[2] + x[3]
\* the pair's term of the objective
ObjectiveTerm(s, x) ==
    IF s = One THEN 0 - x[1]
    ELSE IF s = 0 THEN x[1]
    ELSE x[2] + x[3]

BasicDecisions == {<<0>>, <<1>>}
TolerantDecisions == {<<ge, le, eq>> : ge \in {0, 1}, le \in {0, 1}, eq \in {0, 1}}
EqualWidths == {0, 2}

\* the feasible continuous values of a pair under a value of its binaries
LocalBasic == [s \in 0..One, d \in BasicDecisions |->
    {x \in Continuous(s) : BracketBasic(s, d[1], x)}]
LocalTolerant == [w \in EqualWidths, s \in 0..One, d \in TolerantDecisions |->
    {x \in Continuous(s) : BracketTolerant(w, s, d, x)}]

Local(v, w, s, d) == IF v = "basic" THEN LocalBasic[s, d] ELSE LocalTolerant[w, s, d]

\* the cheapest of them: what the solver leaves in e, T_pos, T_neg of the pair
Cheapest(s, F) == {x \in F : \A y \in F : ObjectiveTerm(s, x) <= ObjectiveTerm(s, y)}

BestBasic == [s \in 0..One, d \in BasicDecisions |-> Cheapest(s, LocalBasic[s, d])]
BestTolerant == [w \in EqualWidths, s \in 0..One, d \in TolerantDecisions |->
    Cheapest(s, LocalTolerant[w, s, d])]

BestLocal(v, w, s, d) == IF v = "basic" THEN BestBasic[s, d] ELSE BestTolerant[w, s, d]

LocalCost(v, w, s, d) ==
    LET x == CHOOSE y \in BestLocal(v, w, s, d) : TRUE IN ObjectiveTerm(s, x)

---------------------------------------------------------------------------
(* Phase 1, transitivity.  dec maps each canonical pair to its binaries. *)

OrderedKey(x, y) == IF x > y THEN <<y, x>> ELSE <<x, y>>

\* Basic: b (or c) is Z_ij of the stored key, complemented when the key is stored
\* the other way round
Oriented(dec, x, y) ==
    IF OrderedKey(x, y)[1] # x THEN 1 - dec[OrderedKey(x, y)][1] ELSE dec[OrderedKey(x, y)][1]

TransitivityBasic(dec, ns) ==
    \A ij \in DOMAIN dec : \A k \in ns :
        LET i == ij[1]
            j == ij[2]
            a == dec[ij][1]
        IN IF OrderedKey(j, k) \notin DOMAIN dec THEN TRUE
           ELSE IF OrderedKey(i, k) \notin DOMAIN dec THEN TRUE
           ELSE LET b == Oriented(dec, j, k)
                    c == Oriented(dec, i, k)
                IN /\ a + b <= 1 + c
                   /\ a + b >= c

\* Tolerant: <<ge, le, eq>> of the stored key, le and ge swapped when the key is
\* stored the other way round
OrientedTriple(dec, x, y) ==
    LET d == dec[OrderedKey(x, y)]
    IN IF OrderedKey(x, y)[1] # x THEN <<d[2], d[1], d[3]>> ELSE d

TransitivityTolerant(dec, ns) ==
    \A ij \in DOMAIN dec : \A k \in ns :
        LET i == ij[1]
            j == ij[2]
            a == dec[ij]
        IN IF OrderedKey(j, k) \notin DOMAIN dec THEN TRUE
           ELSE IF OrderedKey(i, k) \notin DOMAIN dec THEN TRUE
           ELSE LET b == OrientedTriple(dec, j, k)
                    c == OrientedTriple(dec, i, k)
                IN /\ a[1] + b[1] <= 1 + c[1]
                   /\ a[2] + b[2] <= 1 + c[2]
                   /\ a[2] + b[3] <= 1 + c[2]
                   /\ a[3] + b[2] <= 1 + c[2]
                   /\ a[1] + b[3] <= 1 + c[1]
                   /\ a[3] + b[1] <= 1 + c[1]
                   /\ a[3] + b[3] <= 1 + c[3]

---------------------------------------------------------------------------
(* Phase 1, the rank surrogate.  A constraint <<a, b, c>> reads
   R[a] >= R[b] + c. *)

Holds(con, R) == R[con[1]] >= R[con[2]] + con[3]

\* max_rank as used: if max_rank < 1: max_rank = len(nodes)
EffectiveMaxRank(v, mr, ns) == IF v = "basic" \/ mr < 1 THEN Cardinality(ns) ELSE mr

BigM(m) == m

\* rank_transitivity_larger, rank_transitivity_smaller
RankLarger(ij, d, m) == <<ij[1], ij[2], 1 - (1 - d[1]) * BigM(m)>>
RankSmallerBasic(ij, d, m) == <<ij[2], ij[1], 1 - d[1] * BigM(m)>>
RankSmallerTolerant(ij, d, m) == <<ij[2], ij[1], 1 - (1 - d[2]) * BigM(m)>>
\* rank_transitivity_equal1, rank_transitivity_equal2
RankEqual1(ij, d, m) == <<ij[2], ij[1], 0 - (1 - d[3]) * BigM(m)>>
RankEqual2(ij, d, m) == <<ij[1], ij[2], 0 - (1 - d[3]) * BigM(m)>>

NoRankConstraints(v, dec, m) == {}
RankConstraints(v, dec, m) ==
    IF v = "basic"
    THEN {RankLarger(ij, dec[ij], m) : ij \in DOMAIN dec}
         \cup {RankSmallerBasic(ij, dec[ij], m) : ij \in DOMAIN dec}
    ELSE {RankLarger(ij, dec[ij], m) : ij \in DOMAIN dec}
         \cup {RankSmallerTolerant(ij, dec[ij], m) : ij \in DOMAIN dec}
         \cup {RankEqual1(ij, dec[ij], m) : ij \in DOMAIN dec}
         \cup {RankEqual2(ij, dec[ij], m) : ij \in DOMAIN dec}

\* The least R >= 0 that meets the constraints, by raising each R[a] to what
\* its constraints ask for until nothing changes; stopped once a value passes
\* the upper bound ub.  Constraints of this shape have a solution within
\* [0, ub] exactly when their least solution lies within it.
RECURSIVE LeastRanks(_, _, _)
LeastRanks(cons, ub, R) ==
    LET S == [a \in DOMAIN R |->
                Max({R[a]} \cup {R[c[2]] + c[3] : c \in {d \in cons : d[1] = a}})]
    IN IF S = R \/ (\E a \in DOMAIN S : S[a] > ub) THEN S
       ELSE LeastRanks(cons, ub, S)

\* whether R_i with lb=0, ub=ub can meet the constraints
RanksExist(cons, ns, ub) ==
    LET least == LeastRanks(cons, ub, [b \in ns |-> 0])
    IN \A a \in ns : least[a] <= ub

---------------------------------------------------------------------------
(* Phase 1, the whole model and its optimum *)

Decisions(v) == IF v = "basic" THEN BasicDecisions ELSE TolerantDecisions

Transitivity(v, dec, ns) ==
    IF v = "basic" THEN TransitivityBasic(dec, ns) ELSE TransitivityTolerant(dec, ns)

\* the functions f on S with f[k] in allowed[k]
RECURSIVE Choices(_, _)
Choices(S, allowed) ==
    IF S = {} THEN {<< >>}
    ELSE LET k == CHOOSE a \in S : TRUE
         IN {[j \in S |-> IF j = k THEN d ELSE f[j]] :
               f \in Choices(S \ {k}, allowed), d \in allowed[k]}

\* the values of the binaries that some value of the continuous variables and
\* of R_i completes to a feasible point of the phase-1 model
Feasible(v, w, mr, cm) ==
    LET ns == NodesOf(cm)
        m == EffectiveMaxRank(v, mr, ns)
        local == [ij \in DOMAIN cm |->
                    {d \in Decisions(v) : Local(v, w, cm[ij], d) # {}}]
    IN {dec \in Choices(DOMAIN cm, local) :
          /\ Transitivity(v, dec, ns)
          /\ RanksExist(RankConstraints(v, dec, m), ns, m)}

\* the objective at the cheapest completion of dec
Objective(v, w, cm, dec) ==
    SumOver(DOMAIN cm, [ij \in DOMAIN cm |-> LocalCost(v, w, cm[ij], dec[ij])])

\* the binaries of the optimal solutions
Optimal(v, w, mr, cm) ==
    LET F == Feasible(v, w, mr, cm)
        cost == [dec \in F |-> Objective(v, w, cm, dec)]
    IN IF F = {} THEN {}
       ELSE LET best == Min({cost[dec] : dec \in F}) IN {dec \in F : cost[dec] = best}

---------------------------------------------------------------------------
(* Phase 2: minimal ranks *)

Phase2ConstraintsOneWay(v, dec) ==
    IF v = "basic"
    THEN {<<ij[1], ij[2], 1>> : ij \in DOMAIN dec}
    ELSE UNION {IF dec[ij][1] = 1 THEN {<<ij[1], ij[2], 1>>}
                ELSE IF dec[ij][2] = 1 THEN {<<ij[1], ij[2], 1>>}
                ELSE {<<ij[2], ij[1], 0>>, <<ij[1], ij[2], 0>>} :
                  ij \in DOMAIN dec}
\* one constraint per resolved pair
Phase2Constraints(v, dec) ==
    IF v = "basic"
    THEN {IF dec[ij][1] = 1 THEN <<ij[1], ij[2], 1>> ELSE <<ij[2], ij[1], 1>> :
            ij \in DOMAIN dec}
    ELSE UNION {IF dec[ij][1] = 1 THEN {<<ij[1], ij[2], 1>>}
                ELSE IF dec[ij][2] = 1 THEN {<<ij[2], ij[1], 1>>}
                ELSE {<<ij[2], ij[1], 0>>, <<ij[1], ij[2], 0>>} :
                  ij \in DOMAIN dec}

\* The values of R_i on the nodes S within lb=0, ub=ub that meet every
\* constraint between two nodes of S, built one node at a time.
RECURSIVE RanksWithin(_, _, _)
RanksWithin(S, cons, ub) ==
    IF S = {} THEN {<< >>}
    ELSE LET a == Max(S)
             mine == {con \in cons : /\ con[1] \in S
                                     /\ con[2] \in S
                                     /\ (con[1] = a \/ con[2] = a)}
         IN {R \in {[b \in S |-> IF b = a THEN r ELSE f[b]] :
                      f \in RanksWithin(S \ {a}, cons, ub), r \in 0..ub} :
               \A con \in mine : Holds(con, R)}

\* R_i of model_: lb=0, ub=len(nodes)
Phase2Feasible(v, dec, ns) == RanksWithin(ns, Phase2Constraints(v, dec), Cardinality(ns))

\* the optima of the objective R_i.sum().  The constraints are differences with
\* whole constants, so the optimum over the reals is attained at whole ranks.
Phase2Optimal(v, dec, ns) ==
    LET F == Phase2Feasible(v, dec, ns)
        total == [R \in F |-> SumOver(ns, R)]
    IN IF F = {} THEN {}
       ELSE LET best == Min({total[R] : R \in F}) IN {R \in F : total[R] = best}

\* the return statement: model_.getVarByName(f'r_i[{i}]') for i in range(len(nodes))
\* is None for an i that is no node
LookupsSucceed(ns) == \A i \in 0..(Cardinality(ns) - 1) : i \in ns

Returned(R, ns) == [n \in 1..Cardinality(ns) |-> R[n - 1]]

---------------------------------------------------------------------------
(* The calls *)

AscendingKeys == {<<i, j>> \in Ids \X Ids : i < j}
OrderedKeys == {<<i, j>> \in Ids \X Ids : i # j}
ShortIds == {0, 1, 2}
\* values of the short inputs; -0.2 lies outside [0, 1], and under a
\* descending key it stands for 1.2
ShortValues == {0 - 2, 3, Half, One}

KeyBefore(a, b) == a[1] < b[1] \/ (a[1] = b[1] /\ a[2] < b[2])

\* the dict with the keys of S in ascending order and the values val
RECURSIVE DictOf(_, _)
DictOf(S, val) ==
    IF S = {} THEN << >>
    ELSE LET k == CHOOSE a \in S : \A b \in S \ {a} : KeyBefore(a, b)
         IN <<(<<k[1], k[2], val[k]>>)>> \o DictOf(S \ {k}, val)

\* comparisons over at most n pairs, keys ascending, values of the grid G
GraphInputs(n, G) ==
    UNION {{DictOf(S, val) : val \in [S -> G]} :
             S \in {T \in SUBSET AscendingKeys : Cardinality(T) \in 1..n}}

ShortEntries == {<<k[1], k[2], x>> : k \in {a \in OrderedKeys : a[1] \in ShortIds /\ a[2] \in ShortIds},
                                     x \in ShortValues}

RECURSIVE DistinctSeqs(_, _)
DistinctSeqs(S, n) ==
    IF n = 0 THEN {<< >>}
    ELSE LET shorter == DistinctSeqs(S, n - 1)
         IN shorter \cup
            {c \o <<e>> : c \in {d \in shorter : Len(d) = n - 1},
                          e \in S}

\* comparisons of at most n entries, either orientation of a key, both
\* orientations of one pair allowed, values inside and outside [0, 1]
ShortInputs(n) ==
    {c \in DistinctSeqs(ShortEntries, n) :
        /\ c # << >>
        /\ \A a, b \in DOMAIN c : a # b => <<c[a][1], c[a][2]>> # <<c[b][1], c[b][2]>>}

MaxRanks == {DefaultMaxRank, 1}
DefaultEqualWidth == 2

NoFunction == << >>

Start(v, w, mr, c) ==
    /\ variant = v
    /\ equal_width = w
    /\ max_rank = mr
    /\ given = c
    /\ comparisons = c
    /\ pc = "call"
    /\ canon = NoFunction
    /\ nodes = {}
    /\ model_created = FALSE
    /\ declared = FALSE
    /\ decision = NoFunction
    /\ E_ij = NoFunction
    /\ T_ij_pos = NoFunction
    /\ T_ij_neg = NoFunction
    /\ total_cost = 0
    /\ solves = 0
    /\ R_i = NoFunction
    /\ result = << >>
    /\ failure = "none"

InitShort ==
    \E c \in ShortInputs(MaxShort) :
        \/ Start("basic", DefaultEqualWidth, DefaultMaxRank, c)
        \/ Start("tolerant", DefaultEqualWidth, DefaultMaxRank, c)

InitBasic ==
    \E c \in GraphInputs(MaxLen, Grid) : Start("basic", DefaultEqualWidth, DefaultMaxRank, c)

InitTolerant ==
    \E c \in GraphInputs(MaxLen - 1, TolerantGrid) : \E w \in EqualWidths : \E mr \in MaxRanks :
        Start("tolerant", w, mr, c)

InitRanks ==
    \/ \E c \in GraphInputs(MaxLen - 1, Grid) :
          Start("basic", DefaultEqualWidth, DefaultMaxRank, c)
    \/ \E c \in GraphInputs(MaxLen - 1, TolerantGrid) : \E w \in EqualWidths :
          Start("tolerant", w, DefaultMaxRank, c)

Init == InitShort \/ InitBasic \/ InitTolerant

---------------------------------------------------------------------------
(* find_ranking, statement by statement *)

\* comparisons = {...}; nodes = np.unique(...)
Normalize ==
    /\ pc = "call"
    /\ canon' = Canonical(comparisons)
    /\ nodes' = NodesOf(Canonical(comparisons))
    /\ pc' = "normalized"
    /\ UNCHANGED <<variant, equal_width, max_rank, given, comparisons, model_created,
                   declared, decision, E_ij, T_ij_pos, T_ij_neg, total_cost, solves,
                   R_i, result, failure>>

\* model = Model('comparison')
CreateModel ==
    /\ pc = "normalized"
    /\ model_created' = TRUE
    /\ pc' = "created"
    /\ UNCHANGED <<variant, equal_width, max_rank, given, comparisons, canon, nodes,
                   declared, decision, E_ij, T_ij_pos, T_ij_neg, total_cost, solves,
                   R_i, result, failure>>

\* assert values.max() <= 1 and values.min() >= 0
CheckValues ==
    /\ pc = "created"
    /\ IF ValuesInRange(canon)
       THEN pc' = "validated" /\ failure' = failure
       ELSE pc' = "failed" /\ failure' = "AssertionError"
    /\ UNCHANGED <<variant, equal_width, max_rank, given, comparisons, canon, nodes,
                   model_created, declared, decision, E_ij, T_ij_pos, T_ij_neg,
                   total_cost, solves, R_i, result>>

\* addVars, addConstrs, addLConstr, setObjective of the phase-1 model
DeclareModel ==
    /\ pc = "validated"
    /\ declared' = TRUE
    /\ pc' = "declared"
    /\ UNCHANGED <<variant, equal_width, max_rank, given, comparisons, canon, nodes,
                   model_created, decision, E_ij, T_ij_pos, T_ij_neg, total_cost,
                   solves, R_i, result, failure>>

\* model.optimize()
Solve ==
    /\ pc = "declared"
    /\ \E dec \in Optimal(variant, equal_width, max_rank, canon) :
         LET x == [ij \in DOMAIN canon |->
                     CHOOSE y \in BestLocal(variant, equal_width, canon[ij], dec[ij]) : TRUE]
         IN /\ decision' = dec
            /\ E_ij' = [ij \in DOMAIN canon |-> x[ij][1]]
            /\ T_ij_pos' = [ij \in Interior(canon) |-> x[ij][2]]
            /\ T_ij_neg' = [ij \in Interior(canon) |-> x[ij][3]]
            /\ total_cost' = Objective(variant, equal_width, canon, dec)
    /\ solves' = solves + 1
    /\ pc' = "solved"
    /\ UNCHANGED <<variant, equal_width, max_rank, given, comparisons, canon, nodes,
                   model_created, declared, R_i, result, failure>>

\* What bool(T_ij_neg[ij] == 0) does.  T_ij_neg[ij] is the variable, not its
\* value .X, so the comparison builds a constraint object: the gurobipy
\* releases that give it no truth value raise GurobiError, the others take
\* the object as true.
ConstraintObjectAsBool == {"true", "raises"}

\* for ij, value in T_ij_pos.items(): assert value.X == 0 or T_ij_neg[ij] == 0
VerifyAbs ==
    /\ pc = "solved"
    /\ IF \A ij \in DOMAIN T_ij_pos : T_ij_pos[ij] = 0
       THEN pc' = "verified" /\ failure' = failure
       ELSE \E b \in ConstraintObjectAsBool :
              IF b = "true"
              THEN pc' = "verified" /\ failure' = failure
              ELSE pc' = "failed" /\ failure' = "GurobiError"
    /\ UNCHANGED <<variant, equal_width, max_rank, given, comparisons, canon, nodes,
                   model_created, declared, decision, E_ij, T_ij_pos, T_ij_neg,
                   total_cost, solves, R_i, result>>

\* model_ = Model('comparison') ... model_.optimize()
MinimalRanks ==
    /\ pc = "verified"
    /\ \E R \in Phase2Optimal(variant, decision, nodes) : R_i' = R
    /\ solves' = solves + 1
    /\ pc' = "ranked"
    /\ UNCHANGED <<variant, equal_width, max_rank, given, comparisons, canon, nodes,
                   model_created, declared, decision, E_ij, T_ij_pos, T_ij_neg,
                   total_cost, result, failure>>

\* return [model_.getVarByName(f'r_i[{i}]').X for i in range(len(nodes))], ...
Return ==
    /\ pc = "ranked"
    /\ IF LookupsSucceed(nodes)
       THEN pc' = "done" /\ result' = Returned(R_i, nodes) /\ failure' = failure
       ELSE pc' = "failed" /\ result' = result /\ failure' = "AttributeError"
    /\ UNCHANGED <<variant, equal_width, max_rank, given, comparisons, canon, nodes,
                   model_created, declared, decision, E_ij, T_ij_pos, T_ij_neg,
                   total_cost, solves, R_i>>

\* Before the call, the caller writes entry n the other way round: the
\* "probability of i >= j" under (i, j) is one minus that under (j, i).
Reorient(n) ==
    /\ pc = "call"
    /\ \A k \in DOMAIN comparisons :
          <<comparisons[k][1], comparisons[k][2]>> # <<comparisons[n][2], comparisons[n][1]>>
    /\ comparisons' = [comparisons EXCEPT
                         ![n] = <<comparisons[n][2], comparisons[n][1], One - comparisons[n][3]>>]
    /\ UNCHANGED <<variant, equal_width, max_rank, given, pc, canon, nodes, model_created,
                   declared, decision, E_ij, T_ij_pos, T_ij_neg, total_cost, solves,
                   R_i, result, failure>>

Next ==
    \/ Normalize
    \/ CreateModel
    \/ CheckValues
    \/ DeclareModel
    \/ Solve
    \/ VerifyAbs
    \/ MinimalRanks
    \/ Return

Spec == Init /\ [][Next]_vars

\* the Basic variant on graphs of comparisons
SpecBasic == InitBasic /\ [][Next]_vars

\* the Tolerant variant on graphs of comparisons
SpecTolerant == InitTolerant /\ [][Next]_vars

\* both variants on the smaller graphs
SpecRanks == InitRanks /\ [][Next]_vars

\* both variants on short inputs of any orientation and value
SpecShort == InitShort /\ [][Next]_vars

NextSym ==
    \/ \E n \in DOMAIN comparisons : Reorient(n)
    \/ Next

\* the same, the caller re-orienting entries before the call
SpecSym == InitShort /\ [][NextSym]_vars

---------------------------------------------------------------------------
(* Notions the properties are stated in *)

AfterSolve == {"solved", "verified", "ranked", "done"}

\* the pairs <<winner, loser>> of a Basic resolution o: pair -> 0 or 1
Beats(o) == {IF o[ij] = 1 THEN ij ELSE <<ij[2], ij[1]>> : ij \in DOMAIN o}

\* no directed cycle among the nodes ns: some node beats nobody, and so on
\* for the nodes that are left
RECURSIVE Acyclic(_, _)
Acyclic(edges, ns) ==
    IF ns = {} THEN TRUE
    ELSE LET sinks == {a \in ns : \A b \in ns : <<a, b>> \notin edges}
         IN sinks # {} /\ Acyclic(edges, ns \ sinks)

\* an orientation of every compared pair that agrees with the observation
Agrees(cm, o) ==
    \A ij \in DOMAIN cm : /\ cm[ij] > Half => o[ij] = 1
                          /\ cm[ij] < Half => o[ij] = 0

ConsistentInput(cm) ==
    \E o \in [DOMAIN cm -> {0, 1}] : Agrees(cm, o) /\ Acyclic(Beats(o), NodesOf(cm))

\* the pairs whose decision goes against the observation
Flipped(cm, dec) ==
    {ij \in DOMAIN cm : \/ cm[ij] > Half /\ dec[ij][1] = 0
                        \/ cm[ij] < Half /\ dec[ij][1] = 1}

\* A > B = 1.0, B > C = 1.0, C > A = 1.0 with A, B, C = 0, 1, 2
ThreeCycle == [ij \in {<<0, 1>>, <<1, 2>>, <<0, 2>>} |-> IF ij = <<0, 2>> THEN 0 ELSE One]

OnThreeCycle == variant = "basic" /\ canon = ThreeCycle

---------------------------------------------------------------------------
(* Properties *)

\* C1 as stated: on the 3-cycle the Basic variant returns total_cost = 1.0
\* with one decision flipped and three pairwise distinct ranks.
C1_Original ==
    /\ (OnThreeCycle /\ pc \in AfterSolve) =>
          total_cost = One /\ Cardinality(Flipped(canon, decision)) = 1
    /\ (OnThreeCycle /\ pc = "done") =>
          Len(result) = 3 /\ Cardinality({result[n] : n \in 1..3}) = 3

\* C1 amended: on the 3-cycle the Basic variant returns total_cost = 0.5 (the
\* flipped observation of 1.0 is moved to the threshold 0.5), one decision is
\* flipped and the three returned ranks are pairwise distinct.
C1_ThreeCycle ==
    /\ (OnThreeCycle /\ pc \in AfterSolve) =>
          total_cost = Half /\ Cardinality(Flipped(canon, decision)) = 1
    /\ (OnThreeCycle /\ pc = "done") =>
          Len(result) = 3 /\ Cardinality({result[n] : n \in 1..3}) = 3

C1_Witness == OnThreeCycle /\ pc = "done" /\ total_cost = Half

\* C2: in the Basic variant the total cost is never negative, and it is 0
\* exactly when some acyclic orientation of the compared pairs agrees with
\* every observation.
C2_CostZeroIffConsistent ==
    (variant = "basic" /\ pc \in {"solved", "done"}) =>
        /\ total_cost >= 0
        /\ total_cost = 0 <=> ConsistentInput(canon)

C2_Witness ==
    /\ variant = "basic" /\ pc = "done"
    /\ Cardinality(DOMAIN canon) = 4
    /\ \E ij \in DOMAIN canon : canon[ij] = Half
    /\ total_cost = 0

\* C8: in the Basic variant no feasible assignment of the phase-1 model
\* resolves the pairs into a directed cycle, of any length, and the phase-2
\* model built from the solved decisions has a solution.
C8_FeasibleIsAcyclic ==
    /\ (variant = "basic" /\ pc = "declared") =>
          \A dec \in Feasible(variant, equal_width, max_rank, canon) :
              Acyclic(Beats([ij \in DOMAIN dec |-> dec[ij][1]]), nodes)
    /\ (variant = "basic" /\ pc = "verified") =>
          /\ Acyclic(Beats([ij \in DOMAIN decision |-> decision[ij][1]]), nodes)
          /\ Phase2Feasible(variant, decision, nodes) # {}

\* a ring of four nodes: no three of them are compared pairwise
FourRing == {<<0, 1>>, <<1, 2>>, <<2, 3>>, <<0, 3>>}

C8_Witness ==
    /\ variant = "basic" /\ pc = "ranked"
    /\ DOMAIN canon = FourRing
    /\ ~ConsistentInput(canon)


\* the k-th smallest of the nodes
RECURSIVE KthSmallest(_, _)
KthSmallest(ns, k) == IF k = 1 THEN Min(ns) ELSE KthSmallest(ns \ {Min(ns)}, k - 1)

\* C3 as stated: whatever the item ids, a call that reaches the return
\* statement returns one rank per node, the k-th entry being the phase-2
\* rank of the k-th smallest id; the lookup of the ranks never fails.
C3_RanksInNodeOrder ==
    /\ pc = "failed" => failure # "AttributeError"
    /\ pc = "done" =>
          /\ Len(result) = Cardinality(nodes)
          /\ \A k \in 1..Len(result) : result[k] = R_i[KthSmallest(nodes, k)]

SinglePair(s) == Cardinality(DOMAIN canon) = 1 /\ \A ij \in DOMAIN canon : canon[ij] = s

EqualOnly == <<0, 0, 1>>

ResolvedEqual ==
    /\ pc = "declared" =>
          \A dec \in Optimal(variant, equal_width, max_rank, canon) :
              \A ij \in DOMAIN dec : dec[ij] = EqualOnly
    /\ pc \in AfterSolve => \A ij \in DOMAIN canon : decision[ij] = EqualOnly
    /\ pc \in {"ranked", "done"} => \A ij \in DOMAIN canon : R_i[ij[1]] = R_i[ij[2]]
    /\ pc = "done" => result[1] = result[2]

\* C4 as stated: in the Tolerant variant a single pair observed at exactly 0.5
\* is resolved as equal by every optimal solution, for every equal_width >= 0,
\* and the two items get the same rank.
C4_Original ==
    (variant = "tolerant" /\ pc # "call" /\ SinglePair(Half) /\ equal_width >= 0) =>
        ResolvedEqual

\* C4 amended: the same for every equal_width > 0.  (At equal_width = 0 the
\* band is the single point 0.5, which the ge and le brackets admit as well,
\* so greater, less and equal are all optimal at cost 0.)
C4_TieIsEqual ==
    (variant = "tolerant" /\ pc # "call" /\ SinglePair(Half) /\ equal_width > 0) =>
        ResolvedEqual

C4_Witness ==
    /\ variant = "tolerant" /\ pc = "done" /\ SinglePair(Half) /\ equal_width > 0
    /\ \A ij \in DOMAIN canon : decision[ij] = EqualOnly
    /\ result[1] = result[2]

\* C5: writing entries of the input the other way round, with complemented
\* values, leaves the canonical map unchanged, and with it the model that is
\* solved: the call resolves the pairs by an optimum of the canonical map of
\* the input as first written, at that optimum's cost.
C5_ReorientationInvariant ==
    /\ pc = "call" => Canonical(comparisons) = Canonical(given)
    /\ pc # "call" => canon = Canonical(given)
    /\ pc = "solved" =>
          /\ decision \in Optimal(variant, equal_width, max_rank, Canonical(given))
          /\ total_cost = Objective(variant, equal_width, Canonical(given), decision)

C5_Witness ==
    /\ pc = "done"
    /\ Len(given) = 1
    /\ given[1][1] < given[1][2]
    /\ comparisons[1] = <<given[1][2], given[1][1], One - given[1][3]>>
    /\ given[1][3] = 3

OutOfRange(c) == \E n \in DOMAIN c : c[n][3] < 0 \/ c[n][3] > One

\* C6 as stated: when a probability of the input lies outside [0, 1] the call
\* fails with the assertion before the optimisation model is created; nothing
\* is declared, no solve is run and nothing is returned.
C6_FailsBeforeModel ==
    OutOfRange(comparisons) =>
        /\ pc \notin {"validated", "declared", "solved", "verified", "ranked", "done"}
        /\ ~model_created
        /\ ~declared /\ solves = 0 /\ result = << >>
        /\ pc = "failed" => failure = "AssertionError"

AbsExact == \A ij \in DOMAIN T_ij_pos : T_ij_pos[ij] = 0 \/ T_ij_neg[ij] = 0

\* C7 as stated: the check after the phase-1 solve passes exactly when
\* min(T_pos, T_neg) = 0 for every interior pair and fails, with the
\* assertion, exactly when some interior pair has both positive; a solution
\* with T_pos > 0 and T_neg = 0 passes.
C7_AbsCheck ==
    /\ pc \in {"verified", "ranked", "done"} => AbsExact
    /\ (pc = "failed" /\ solves = 1) => (~AbsExact /\ failure = "AssertionError")

\* the chains a_1, ..., a_m of distinct items
RECURSIVE ChainsOfLength(_)
ChainsOfLength(n) ==
    IF n = 1 THEN {<<a>> : a \in Ids}
    ELSE {c \o <<a>> : c \in ChainsOfLength(n - 1), a \in Ids} 

AllChains ==
    {c \in UNION {ChainsOfLength(n) : n \in 1..Cardinality(Ids)} :
        \A a, b \in DOMAIN c : a # b => c[a] # c[b]}

\* the resolved relation of the pair a, b: "gt" when a is above b
Resolved(v, dec, a, b) ==
    LET d == dec[OrderedKey(a, b)]
        up == IF v = "basic" THEN d[1] = 1 ELSE d[1] = 1
        down == IF v = "basic" THEN d[1] = 0 ELSE d[2] = 1
    IN IF up THEN (IF a < b THEN "gt" ELSE "lt")
       ELSE IF down THEN (IF a < b THEN "lt" ELSE "gt")
       ELSE "eq"

\* each item of the chain is resolved above or equal to the next
IsDominanceChain(v, dec, c) ==
    \A n \in 1..(Len(c) - 1) :
        /\ OrderedKey(c[n], c[n + 1]) \in DOMAIN dec
        /\ Resolved(v, dec, c[n], c[n + 1]) \in {"gt", "eq"}

StrictSteps(v, dec, c) ==
    Cardinality({n \in 1..(Len(c) - 1) : Resolved(v, dec, c[n], c[n + 1]) = "gt"})

\* the number of strict steps of the longest dominance chain that starts at a
\* and leads down from it
LongestChain(v, dec, a) ==
    Max({StrictSteps(v, dec, c) :
           c \in {d \in AllChains : d[1] = a /\ IsDominanceChain(v, dec, d)}})

Layering(v, dec, ns) == [a \in ns |-> LongestChain(v, dec, a)]

\* C9: phase 2 has exactly one optimum, the longest-path layering of the
\* resolved relations: ranks within [0, n], a strict relation separated by at
\* least 1, an equal relation by 0, and an item above nothing at rank 0.
C9_MinimalRanksAreLayers ==
    /\ pc = "verified" =>
          Phase2Optimal(variant, decision, nodes) = {Layering(variant, decision, nodes)}
    /\ pc \in {"ranked", "done"} =>
          /\ R_i = Layering(variant, decision, nodes)
          /\ \A a \in nodes : R_i[a] >= 0 /\ R_i[a] <= Cardinality(nodes)
          /\ \A ij \in DOMAIN decision :
                /\ Resolved(variant, decision, ij[1], ij[2]) = "gt" => R_i[ij[1]] >= R_i[ij[2]] + 1
                /\ Resolved(variant, decision, ij[1], ij[2]) = "lt" => R_i[ij[2]] >= R_i[ij[1]] + 1
                /\ Resolved(variant, decision, ij[1], ij[2]) = "eq" => R_i[ij[1]] = R_i[ij[2]]

C9_Witness ==
    /\ variant = "tolerant" /\ pc = "ranked"
    /\ Cardinality(nodes) = 4
    /\ Cardinality(DOMAIN decision) = 3
    /\ \E ij \in DOMAIN decision : decision[ij] = EqualOnly
    /\ \E a \in nodes : R_i[a] = 2

\* the rank-surrogate constraints of a pair whose decision is inactive
Inactive(ij, d, m) ==
    (IF d[1] = 0 THEN {RankLarger(ij, d, m)} ELSE {})
    \cup (IF d[2] = 0 THEN {RankSmallerTolerant(ij, d, m)} ELSE {})
    \cup (IF d[3] = 0 THEN {RankEqual1(ij, d, m), RankEqual2(ij, d, m)} ELSE {})

\* C10 as stated: in the Tolerant phase-1 model the rank-surrogate constraint
\* of an inactive decision is met by every pair of values of R_i, R_j within
\* [0, max_rank]; so with max_rank = 1 a single pair observed at 1.0 is
\* resolved as i > j at cost 0.
C10_InactiveIsVacuous ==
    /\ (variant = "tolerant" /\ pc = "declared") =>
          LET m == EffectiveMaxRank(variant, max_rank, nodes)
          IN \A ij \in DOMAIN canon : \A d \in {<<1, 0, 0>>, <<0, 1, 0>>, <<0, 0, 1>>} :
                \A con \in Inactive(ij, d, m) :
                    \A R \in [{ij[1], ij[2]} -> 0..m] : Holds(con, R)
    /\ (variant = "tolerant" /\ pc \in AfterSolve /\ SinglePair(One) /\ max_rank = 1) =>
          /\ \A ij \in DOMAIN canon : decision[ij] = <<1, 0, 0>>
          /\ total_cost = 0

=============================================================================
